---------------------------- MODULE Spec2Model ----------------------------
(***************************************************************************)
(* Session lifecycle and message dispatch of the Claude Telegram bot.      *)
(*                                                                         *)
(* The long-poll client (src/bot.py) is the program modelled: the session  *)
(* class, the global session map, the four event handlers and the periodic *)
(* sweep.  The handlers are coroutines of one event loop: a handler runs   *)
(* without interruption from one `await` to the next, and any other        *)
(* handler, or the sweep, may run while it is suspended.  One action of    *)
(* this module is one such uninterrupted run.                              *)
(*                                                                         *)
(* The webhook variant (src/api/webhook.py) carries the same session class *)
(* and the same handler bodies; where it differs (TelegramAPI.send_message *)
(* cuts every text to 4096 units) the difference is modelled by name.      *)
(***************************************************************************)
EXTENDS Integers, Sequences, FiniteSets, TLC

(***************************************************************************)
(* Bounds of the model.                                                    *)
(***************************************************************************)
\* Inbound events handled in one behaviour.
MaxEvents == 4
\* Largest configured MAX_CONVERSATION_LENGTH explored.
MaxHistory == 3
\* Times the clock advances in one behaviour.
MaxTicks == 1
\* Largest reply length explored by the reply-splitting specification.
MaxReplyLen == 9000
\* The inbound events of SpecReply.
ReplyEvents == 2
\* The times the clock advances in SpecSweep.
SweepTicks == 3
\* The inbound events of SpecSweep.
SweepEvents == 3
\* The inbound events of SpecConc.
ConcEvents == 3
\* The inbound events of SpecUsers.
UsersEvents == 3

(***************************************************************************)
(* Program constants.                                                      *)
(***************************************************************************)
\* Telegram's single-message size ceiling, the literal of bot.py:222-223.
MESSAGE_LIMIT == 4096
\* os.getenv('SESSION_TIMEOUT_HOURS', '24')
SESSION_TIMEOUT_HOURS == 24
\* Hours by which one Tick advances the clock (the sweep sleeps 3600 s, so
\* any whole number of hours can separate two observations of the clock).
TickHours == 25

(***************************************************************************)
(* Text.  A Python str is a sequence of one-character strings.             *)
(***************************************************************************)
\* Python's None: no str equals it.
None == <<"None">>

EMPTY == << >>
CMD_START == <<"/", "s", "t", "a", "r", "t">>
CMD_RESET == <<"/", "r", "e", "s", "e", "t">>
CMD_HELP == <<"/", "h", "e", "l", "p">>
SLASH == <<"/">>
\* A text that starts with '/' and that no command pattern matches.
CMD_UNKNOWN == <<"/", "x">>
\* A text the pattern '/start' matches and that is not '/start'.
CMD_STARTX == CMD_START \o <<"x">>
\* The credential prefix 'sk-ant-' of bot.py:173.
KEY_PREFIX == <<"s", "k", "-", "a", "n", "t", "-">>
\* A credential a user sends, and the operator's default credential.
USER_KEY == KEY_PREFIX \o <<"u">>
DEFAULT_KEY == KEY_PREFIX \o <<"d">>
PASSWORD == <<"s", "e", "c", "r", "e", "t", "1", "2", "3">>
PASSWORD_UPPER == <<"S", "e", "c", "r", "e", "t", "1", "2", "3">>
HELLO == <<"h", "i">>
WRONG == <<"w", "r", "o", "n", "g">>

\* str.startswith
StartsWith(text, prefix) ==
    /\ Len(text) >= Len(prefix)
    /\ SubSeq(text, 1, Len(prefix)) = prefix

\* Python truthiness of an Optional[str]: None and '' are false.
Truthy(s) == s # None /\ s # EMPTY

Min(a, b) == IF a < b THEN a ELSE b
Max(a, b) == IF a > b THEN a ELSE b

\* seq[a:] for a Python list, a of either sign (a negative index counts from
\* the end, and both ends are clamped to the list).
PySliceFrom(seq, a) ==
    LET start == IF a < 0 THEN Max(Len(seq) + a, 0) ELSE Min(a, Len(seq))
    IN  SubSeq(seq, start + 1, Len(seq))

(***************************************************************************)
(* State.                                                                  *)
(***************************************************************************)
VARIABLES
    MASTER_PASSWORD,            \* os.getenv('MASTER_PASSWORD')
    DEFAULT_CLAUDE_API_KEY,     \* os.getenv('DEFAULT_CLAUDE_API_KEY')
    MAX_CONVERSATION_LENGTH,    \* int(os.getenv('MAX_CONVERSATION_LENGTH'))
    user_sessions,              \* the global map: user id -> session object
    heap,                       \* the UserSession objects, by object id
    now,                        \* datetime.now(), in hours
    task,                       \* the handler coroutines in flight
    nextEv,                     \* number of the next inbound event
    ticks,                      \* how often the clock has advanced
    appended                    \* per object: every turn appended since its
                                \* history was last cleared (history variable)

config == <<MASTER_PASSWORD, DEFAULT_CLAUDE_API_KEY, MAX_CONVERSATION_LENGTH>>
vars == <<MASTER_PASSWORD, DEFAULT_CLAUDE_API_KEY, MAX_CONVERSATION_LENGTH,
          user_sessions, heap, now, task, nextEv, ticks, appended>>

Users == {1, 2}
Procs == {1, 2}
\* One object for each user in the map and for each handler that may still
\* hold a session the sweep has removed from it.
ObjIds == 1..(Cardinality(Users) + Cardinality(Procs))
\* No object: the value of user_sessions.get(u) for an absent key.
NoObj == 0

MasterPasswords == {EMPTY, PASSWORD, USER_KEY}
DefaultKeys == {None, DEFAULT_KEY}


(***************************************************************************)
(* class UserSession                                                       *)
(***************************************************************************)
\* AsyncAnthropic(api_key=k): a client is the credential it was built with.
AsyncAnthropic(api_key) == api_key

\* UserSession.__init__
UserSession(user_id) ==
    [user_id |-> user_id,
     authenticated |-> FALSE,
     api_key |-> None,
     conversation_history |-> << >>,
     last_activity |-> now,
     claude_client |-> None]

\* The slot of heap no object has been constructed in yet.
Unallocated ==
    [user_id |-> 0,
     authenticated |-> FALSE,
     api_key |-> None,
     conversation_history |-> << >>,
     last_activity |-> 0,
     claude_client |-> None]

\* authenticate_with_password without the test that a master password is
\* configured.
PasswordAccepted_unguarded(password) == password = MASTER_PASSWORD

\* The value authenticate_with_password returns.
PasswordAccepted(password) ==
    Truthy(MASTER_PASSWORD) /\ password = MASTER_PASSWORD

\* authenticate_with_password that sets the flag and binds nothing.
authenticate_with_password_unbound(self, password) ==
    IF PasswordAccepted(password)
    THEN [self EXCEPT !.authenticated = TRUE]
    ELSE self

\* UserSession.authenticate_with_password: the session afterwards.
authenticate_with_password(self, password) ==
    IF PasswordAccepted(password)
    THEN [self EXCEPT
            !.authenticated = TRUE,
            !.api_key = DEFAULT_CLAUDE_API_KEY,
            !.claude_client =
                IF Truthy(DEFAULT_CLAUDE_API_KEY)
                THEN AsyncAnthropic(DEFAULT_CLAUDE_API_KEY)
                ELSE @]
    ELSE self

\* UserSession.authenticate_with_api_key: the session afterwards.
authenticate_with_api_key(self, api_key) ==
    [self EXCEPT
        !.authenticated = TRUE,
        !.api_key = api_key,
        !.claude_client = AsyncAnthropic(api_key)]

\* One turn of the history.  ev is not a key of the program's dict: it
\* records the inbound event the turn belongs to.
Turn(role, content, ev) == [role |-> role, content |-> content, ev |-> ev]

\* The content of an assistant turn.  The reply's text is opaque to the
\* program; only its length decides anything (how it is split for sending).
ASSISTANT_TEXT == <<"assistant_message">>

\* add_message with the slice taken from the wrong end: the oldest turns
\* are kept and the newest dropped.
add_message_keeps_oldest(self, turn) ==
    LET grown == Append(self.conversation_history, turn)
    IN  [self EXCEPT
            !.last_activity = now,
            !.conversation_history =
                IF Len(grown) > MAX_CONVERSATION_LENGTH
                THEN SubSeq(grown, 1, MAX_CONVERSATION_LENGTH)
                ELSE grown]

\* UserSession.add_message: the session afterwards.
add_message(self, turn) ==
    LET grown == Append(self.conversation_history, turn)
    IN  [self EXCEPT
            !.last_activity = now,
            !.conversation_history =
                IF Len(grown) > MAX_CONVERSATION_LENGTH
                THEN PySliceFrom(grown, -MAX_CONVERSATION_LENGTH)
                ELSE grown]

\* reset_conversation that starts the session over, authentication
\* included.
reset_conversation_logs_out(self) ==
    [self EXCEPT !.conversation_history = << >>, !.authenticated = FALSE]

\* reset_conversation that also drops the bound credential and client.
reset_conversation_unbinds(self) ==
    [self EXCEPT !.conversation_history = << >>,
                 !.api_key = None,
                 !.claude_client = None]

\* UserSession.reset_conversation: the session afterwards.
reset_conversation(self) ==
    [self EXCEPT !.conversation_history = << >>]

(***************************************************************************)
(* The session map.                                                        *)
(***************************************************************************)
\* user_id in user_sessions
InStore(user_id) == user_sessions[user_id] # NoObj

\* The id a newly constructed object takes: the least one not in use.
NewObj ==
    CHOOSE o \in ObjIds :
        /\ heap[o] = Unallocated
        /\ \A o2 \in ObjIds : o2 < o => heap[o2] # Unallocated

\* get_or_create_session that hands out the session of user 1 to everyone
\* once there is one.
get_or_create_session_shared(user_id) ==
    IF InStore(1)
    THEN user_sessions[1]
    ELSE IF InStore(user_id) THEN user_sessions[user_id] ELSE NewObj

\* get_or_create_session that hands out a new object to an identity that
\* has one.
get_or_create_session_replaces(user_id) == NewObj

\* get_or_create_session: the object returned, and the map and the heap
\* afterwards.
get_or_create_session(user_id) ==
    IF InStore(user_id) THEN user_sessions[user_id] ELSE NewObj

StoreAfterGet(user_id) ==
    IF InStore(user_id)
    THEN user_sessions
    ELSE [user_sessions EXCEPT ![user_id] = NewObj]

HeapAfterGet(user_id) ==
    IF InStore(user_id)
    THEN heap
    ELSE [heap EXCEPT ![NewObj] = UserSession(user_id)]

\* Expired that takes a session idle for exactly the timeout as expired.
Expired_at_timeout(session) ==
    now - session.last_activity >= SESSION_TIMEOUT_HOURS

\* The test of clean_old_sessions: current_time - last_activity > timeout.
Expired(session) == now - session.last_activity > SESSION_TIMEOUT_HOURS

\* clean_old_sessions: the map afterwards.
clean_old_sessions ==
    [u \in Users |->
        IF InStore(u) /\ Expired(heap[user_sessions[u]])
        THEN NoObj
        ELSE user_sessions[u]]

(***************************************************************************)
(* Handler coroutines.  task[p].pc names the await the coroutine is        *)
(* suspended in; a handler that returned, or that an exception left, frees *)
(* its slot.  out is what the Messaging Gateway has accepted from it.      *)
(***************************************************************************)
\* task[p].reply before messages.create has returned.
NoReply == -1

\* text, session: the handler's locals message_text and session; reply: the
\* length of assistant_message; i: the loop variable of bot.py:223.  The
\* other fields are history variables: ev numbers the inbound event, out is
\* the gateway's record, probes and creates count the calls of
\* messages.create, compared tells whether authenticate_with_password was
\* called, before is the history message_handler found.
IdleTask ==
    [pc |-> "idle", user_id |-> 0, text |-> EMPTY, session |-> NoObj,
     ev |-> 0, reply |-> NoReply, i |-> 0, out |-> << >>,
     probes |-> 0, creates |-> 0, compared |-> FALSE, before |-> << >>]

\* A coroutine slot is free when no handler is suspended in it.
Free(p) == task[p].pc = "idle"

\* The event loop takes the first free slot.
FirstFree(p) == Free(p) /\ \A q \in Procs : q < p => ~Free(q)

\* The handler for event number nextEv starts in slot p.
Started(p, user_id, text, session, pc) ==
    [IdleTask EXCEPT
        !.pc = pc, !.user_id = user_id, !.text = text,
        !.session = session, !.ev = nextEv]

\* events.NewMessage(pattern=...): Telethon matches the pattern with
\* re.match, that is, at the start of the text.
NewMessage(pattern, text) == StartsWith(text, pattern)

\* A message the gateway accepted: its body, and for a piece of the reply
\* the half-open range [lo, hi) of the reply it holds.
Sent(body) == [op |-> "send", body |-> body, lo |-> 0, hi |-> 0]
SentChunk(lo, hi) == [op |-> "send", body |-> "reply", lo |-> lo, hi |-> hi]
Deleted == [op |-> "delete", body |-> "typing", lo |-> 0, hi |-> 0]

\* An object is live while the map or a suspended handler refers to it.
Live(o, store, tasks) ==
    \/ \E u \in Users : store[u] = o
    \/ \E p \in Procs : tasks[p].pc # "idle" /\ tasks[p].session = o

\* The state a step leaves: the map, the objects, the handlers and the
\* record of appended turns it produced, with the objects nothing refers to
\* any more reclaimed (CPython frees them when the last reference goes).
Commit(store, objects, tasks, turns) ==
    /\ user_sessions' = store
    /\ task' = tasks
    /\ heap' = [o \in ObjIds |->
                   IF Live(o, store, tasks) THEN objects[o] ELSE Unallocated]
    /\ appended' = [o \in ObjIds |->
                   IF Live(o, store, tasks) THEN turns[o] ELSE << >>]

\* A step of handler p that changes only p's own locals.
Local(p, locals) ==
    /\ Commit(user_sessions, heap, [task EXCEPT ![p] = locals], appended)
    /\ UNCHANGED <<config, now, nextEv, ticks>>

\* Handler p returns, or an exception leaves it.
Ends(p) == Local(p, IdleTask)

Init ==
    /\ MASTER_PASSWORD \in MasterPasswords
    /\ DEFAULT_CLAUDE_API_KEY \in DefaultKeys
    /\ MAX_CONVERSATION_LENGTH \in 1..MaxHistory
    /\ user_sessions = [u \in Users |-> NoObj]
    /\ heap = [o \in ObjIds |-> Unallocated]
    /\ now = 0
    /\ task = [p \in Procs |-> IdleTask]
    /\ nextEv = 1
    /\ ticks = 0
    /\ appended = [o \in ObjIds |-> << >>]

\* start_handler, to its await of event.respond (bot.py:122).
start_handler(p, user_id, text) ==
    /\ FirstFree(p)
    /\ nextEv <= MaxEvents
    /\ NewMessage(CMD_START, text)
    /\ LET session == get_or_create_session(user_id)
       IN  Commit(StoreAfterGet(user_id),
                  [HeapAfterGet(user_id) EXCEPT
                      ![session] = reset_conversation(@)],
                  [task EXCEPT ![p] =
                      Started(p, user_id, text, session, "start_respond")],
                  [appended EXCEPT ![session] = << >>])
    /\ nextEv' = nextEv + 1
    /\ UNCHANGED <<config, now, ticks>>

\* reset_handler without the test of bot.py:129: it clears and confirms
\* whatever the session's state.
reset_handler_unchecked(p, user_id, text) ==
    /\ FirstFree(p)
    /\ nextEv <= MaxEvents
    /\ NewMessage(CMD_RESET, text)
    /\ LET session == get_or_create_session(user_id)
       IN  Commit(StoreAfterGet(user_id),
                  [HeapAfterGet(user_id) EXCEPT
                      ![session] = reset_conversation(@)],
                  [task EXCEPT ![p] =
                      Started(p, user_id, text, session, "reset_respond")],
                  [appended EXCEPT ![session] = << >>])
    /\ nextEv' = nextEv + 1
    /\ UNCHANGED <<config, now, ticks>>

\* reset_handler, to its await of event.respond (bot.py:130 or 134).
reset_handler(p, user_id, text) ==
    /\ FirstFree(p)
    /\ nextEv <= MaxEvents
    /\ NewMessage(CMD_RESET, text)
    /\ LET session == get_or_create_session(user_id)
           found == HeapAfterGet(user_id)
       IN  IF ~found[session].authenticated
           THEN Commit(StoreAfterGet(user_id),
                       found,
                       [task EXCEPT ![p] =
                           Started(p, user_id, text, session,
                                   "reset_denied_respond")],
                       appended)
           ELSE Commit(StoreAfterGet(user_id),
                       [found EXCEPT ![session] = reset_conversation(@)],
                       [task EXCEPT ![p] =
                           Started(p, user_id, text, session, "reset_respond")],
                       [appended EXCEPT ![session] = << >>])
    /\ nextEv' = nextEv + 1
    /\ UNCHANGED <<config, now, ticks>>

\* help_handler, to its await of event.respond (bot.py:161).
help_handler(p, user_id, text) ==
    /\ FirstFree(p)
    /\ nextEv <= MaxEvents
    /\ NewMessage(CMD_HELP, text)
    /\ Commit(user_sessions,
              heap,
              [task EXCEPT ![p] =
                  Started(p, user_id, text, NoObj, "help_respond")],
              appended)
    /\ nextEv' = nextEv + 1
    /\ UNCHANGED <<config, now, ticks>>

\* The text matches the pattern of one of the three command handlers.
IsCommand(text) ==
    \/ NewMessage(CMD_START, text)
    \/ NewMessage(CMD_RESET, text)
    \/ NewMessage(CMD_HELP, text)

\* Strategy that tries the password before it looks for the credential
\* prefix.
Strategy_password_first(session, text) ==
    IF ~session.authenticated
    THEN IF PasswordAccepted(text) \/ ~StartsWith(text, KEY_PREFIX)
         THEN "password"
         ELSE "probe"
    ELSE "chat"

\* The branch of bot.py:172-200 message_handler takes for the session it
\* fetched: the probe (bot.py:173), authenticate_with_password (bot.py:188)
\* or the chat.
Strategy(session, text) ==
    IF ~session.authenticated
    THEN IF StartsWith(text, KEY_PREFIX) THEN "probe" ELSE "password"
    ELSE "chat"

\* FirstAwait without the test of bot.py:196: the chat goes ahead whether
\* or not a client is bound.
FirstAwait_unchecked(session, text) ==
    CASE Strategy(session, text) = "probe" -> "probe"
      [] Strategy(session, text) = "password" ->
            IF PasswordAccepted(text) THEN "pw_ok_respond" ELSE "invalid_respond"
      [] Strategy(session, text) = "chat" -> "typing_respond"

\* The await message_handler reaches first.
FirstAwait(session, text) ==
    CASE Strategy(session, text) = "probe" -> "probe"
      [] Strategy(session, text) = "password" ->
            IF PasswordAccepted(text) THEN "pw_ok_respond" ELSE "invalid_respond"
      [] Strategy(session, text) = "chat" ->
            IF session.claude_client = None
            THEN "no_client_respond"
            ELSE "typing_respond"

\* message_handler, to its first await.  It is registered for every new
\* message and returns at once for a text that starts with '/'; for a text
\* one of the command patterns matches, the command handler's action is the
\* whole of the update, so this action takes the others.
message_handler(p, user_id, text) ==
    /\ FirstFree(p)
    /\ nextEv <= MaxEvents
    /\ ~IsCommand(text)
    /\ nextEv' = nextEv + 1
    /\ IF StartsWith(text, SLASH)
       THEN UNCHANGED <<user_sessions, heap, task, appended>>
       ELSE LET session == get_or_create_session(user_id)
                found == HeapAfterGet(user_id)
                pc == FirstAwait(found[session], text)
                \* bot.py:188 calls authenticate_with_password
                called == Strategy(found[session], text) = "password"
            IN  Commit(StoreAfterGet(user_id),
                       IF called
                       THEN [found EXCEPT ![session] =
                                authenticate_with_password(@, text)]
                       ELSE found,
                       [task EXCEPT ![p] =
                           [Started(p, user_id, text, session, pc) EXCEPT
                               !.probes = IF pc = "probe" THEN 1 ELSE 0,
                               !.compared = called,
                               !.before =
                                   found[session].conversation_history]],
                       appended)
    /\ UNCHANGED <<config, now, ticks>>

\* The probe call test_client.messages.create returns (bot.py:176-182).
ProbeReturns(p) ==
    /\ task[p].pc = "probe"
    /\ Commit(user_sessions,
              [heap EXCEPT ![task[p].session] =
                  authenticate_with_api_key(@, task[p].text)],
              [task EXCEPT ![p].pc = "auth_ok_respond"],
              appended)
    /\ UNCHANGED <<config, now, nextEv, ticks>>

\* The probe call raises (bot.py:184-185).
ProbeRaises(p) ==
    /\ task[p].pc = "probe"
    /\ Local(p, [task[p] EXCEPT !.pc = "invalid_key_respond"])

\* The confirmation of bot.py:182 is sent; the handler returns.
AuthOkRespondReturns(p) ==
    /\ task[p].pc = "auth_ok_respond"
    /\ Ends(p)

\* Sending it raises inside the try of bot.py:174: the except clause of
\* bot.py:184 runs.
AuthOkRespondRaises(p) ==
    /\ task[p].pc = "auth_ok_respond"
    /\ Local(p, [task[p] EXCEPT !.pc = "invalid_key_respond"])

\* The awaits after which a handler returns, outside every try, and the
\* message each sends.
FinalBody(pc) ==
    CASE pc = "start_respond" -> "welcome"
      [] pc = "reset_denied_respond" -> "auth_required"
      [] pc = "reset_respond" -> "cleared"
      [] pc = "help_respond" -> "help"
      [] pc = "invalid_key_respond" -> "invalid_key"
      [] pc = "pw_ok_respond" -> "auth_ok"
      [] pc = "invalid_respond" -> "invalid"
      [] pc = "no_client_respond" -> "no_client"
      [] pc = "exc_respond" -> "error"

FinalAwaits ==
    {"start_respond", "reset_denied_respond", "reset_respond", "help_respond",
     "invalid_key_respond", "pw_ok_respond", "invalid_respond",
     "no_client_respond", "exc_respond"}

\* event.respond returns and the handler with it.
FinalRespondReturns(p) ==
    /\ task[p].pc \in FinalAwaits
    /\ Ends(p)

\* event.respond raises and nothing catches it.
FinalRespondRaises(p) ==
    /\ task[p].pc \in FinalAwaits
    /\ Ends(p)

\* The session of handler p takes one more turn (session.add_message).
Appends(p, turn, locals) ==
    /\ Commit(user_sessions,
              [heap EXCEPT ![task[p].session] = add_message(@, turn)],
              [task EXCEPT ![p] = locals],
              [appended EXCEPT ![task[p].session] = Append(@, turn)])
    /\ UNCHANGED <<config, now, nextEv, ticks>>

\* The indicator of bot.py:200 is sent; the user turn is appended and the
\* language-model call is made (bot.py:203-209).
TypingRespondReturns(p) ==
    /\ task[p].pc = "typing_respond"
    /\ Appends(p, Turn("user", task[p].text, task[p].ev),
               [task[p] EXCEPT !.pc = "create",
                               !.creates = @ + 1,
                               !.out = Append(@, Sent("typing"))])

\* Sending the indicator raises, outside the try: the exception leaves the
\* handler.
TypingRespondRaises(p) ==
    /\ task[p].pc = "typing_respond"
    /\ Ends(p)

\* messages.create returns a reply of length len: the assistant turn is
\* appended and the indicator's deletion is awaited (bot.py:217-220).
CreateReturns(p, len) ==
    /\ task[p].pc = "create"
    /\ Appends(p, Turn("assistant", ASSISTANT_TEXT, task[p].ev),
               [task[p] EXCEPT !.pc = "typing_delete", !.reply = len])

\* CreateRaises that records the failure in the history as an assistant
\* turn.
CreateRaises_recorded(p) ==
    /\ task[p].pc = "create"
    /\ Appends(p, Turn("assistant", ASSISTANT_TEXT, task[p].ev),
               [task[p] EXCEPT !.pc = "exc_delete"])

\* messages.create raises: the except clause awaits the indicator's
\* deletion (bot.py:231-232).
CreateRaises(p) ==
    /\ task[p].pc = "create"
    /\ Local(p, [task[p] EXCEPT !.pc = "exc_delete"])

\* Chunk that sends whatever is left of the reply after the first piece as
\* one piece.
Chunk_rest(lo, len) ==
    <<lo, IF lo = 0 THEN Min(MESSAGE_LIMIT, len) ELSE len>>

\* Chunk with a slice one character too long.
Chunk_overlong(lo, len) == <<lo, Min(lo + MESSAGE_LIMIT + 1, len)>>

\* assistant_message[lo:lo+4096] of a reply of length len, as the range
\* [lo, hi) it covers: a slice ends where the string ends.
Chunk(lo, len) == <<lo, Min(lo + MESSAGE_LIMIT, len)>>

\* TelegramAPI.send_message of the webhook variant sends text[:4096]: of the
\* range [lo, hi) it keeps this range.
send_message(lo, hi) == <<lo, Min(hi, lo + MESSAGE_LIMIT)>>

\* The indicator is deleted (bot.py:220); the first piece of the reply, or
\* the whole of it, is awaited (bot.py:222-227).
TypingDeleteReturns(p) ==
    /\ task[p].pc = "typing_delete"
    /\ Local(p, [task[p] EXCEPT
                    !.pc = IF task[p].reply > MESSAGE_LIMIT
                           THEN "chunk_respond"
                           ELSE "reply_respond",
                    !.i = 0,
                    !.out = Append(@, Deleted)])

\* Deleting the indicator raises: the except clause of bot.py:231 runs.
TypingDeleteRaises(p) ==
    /\ task[p].pc = "typing_delete"
    /\ Local(p, [task[p] EXCEPT !.pc = "exc_delete"])

\* One piece of a long reply is sent (bot.py:224-225): i runs over
\* range(0, len(assistant_message), 4096).
ChunkRespondReturns(p) ==
    /\ task[p].pc = "chunk_respond"
    /\ LET c == Chunk(task[p].i, task[p].reply)
           next == task[p].i + MESSAGE_LIMIT
       IN  IF next < task[p].reply
           THEN Local(p, [task[p] EXCEPT
                             !.out = Append(@, SentChunk(c[1], c[2])),
                             !.i = next])
           ELSE Ends(p)

\* A short reply is sent whole (bot.py:227).
ReplyRespondReturns(p) ==
    /\ task[p].pc = "reply_respond"
    /\ Ends(p)

\* Sending a piece, or the whole, of the reply raises: the except clause.
ReplyRespondRaises(p) ==
    /\ task[p].pc \in {"chunk_respond", "reply_respond"}
    /\ Local(p, [task[p] EXCEPT !.pc = "exc_delete"])

\* The except clause's deletion of the indicator returns; the error message
\* is awaited (bot.py:232-234).
ExcDeleteReturns(p) ==
    /\ task[p].pc = "exc_delete"
    /\ Local(p, [task[p] EXCEPT !.pc = "exc_respond",
                                !.out = Append(@, Deleted)])

\* It raises, inside the except clause: the exception leaves the handler.
ExcDeleteRaises(p) ==
    /\ task[p].pc = "exc_delete"
    /\ Ends(p)

\* periodic_cleanup wakes and runs clean_old_sessions (bot.py:237-241).
periodic_cleanup ==
    /\ Commit(clean_old_sessions, heap, task, appended)
    /\ UNCHANGED <<config, now, nextEv, ticks>>

\* The clock advances.
Tick ==
    /\ ticks < MaxTicks
    /\ ticks' = ticks + 1
    /\ now' = now + TickHours
    /\ UNCHANGED <<config, user_sessions, heap, task, nextEv, appended>>

\* The clock advances by hours.
Advance(hours) ==
    /\ ticks < SweepTicks
    /\ ticks' = ticks + 1
    /\ now' = now + hours
    /\ UNCHANGED <<config, user_sessions, heap, task, nextEv, appended>>

\* The texts users send.
Texts == {CMD_START, CMD_RESET, CMD_HELP, CMD_UNKNOWN, CMD_STARTX, USER_KEY,
          PASSWORD, PASSWORD_UPPER, EMPTY, HELLO}
\* The lengths of the replies the language model gives.
ReplyLens == {1, MESSAGE_LIMIT + 1}

\* An inbound update is dispatched to its handler.
Receive(p, user_id, text) ==
    \/ start_handler(p, user_id, text)
    \/ reset_handler(p, user_id, text)
    \/ help_handler(p, user_id, text)
    \/ message_handler(p, user_id, text)

\* An awaited call of the authentication branch completes.
AuthResume(p) ==
    \/ ProbeReturns(p)
    \/ ProbeRaises(p)
    \/ AuthOkRespondReturns(p)
    \/ AuthOkRespondRaises(p)

\* The last awaited call of a handler completes.
FinalResume(p) ==
    \/ FinalRespondReturns(p)
    \/ FinalRespondRaises(p)

\* An awaited call of the chat branch completes; the language model gives
\* replies of the lengths lens.
ChatResume(p, lens) ==
    \/ TypingRespondReturns(p)
    \/ TypingRespondRaises(p)
    \/ task[p].pc = "create" /\ \E len \in lens : CreateReturns(p, len)
    \/ CreateRaises(p)
    \/ TypingDeleteReturns(p)
    \/ TypingDeleteRaises(p)
    \/ ChunkRespondReturns(p)
    \/ ReplyRespondReturns(p)
    \/ ReplyRespondRaises(p)
    \/ ExcDeleteReturns(p)
    \/ ExcDeleteRaises(p)

\* The texts a user is taken to send.  To an authenticated session every
\* text that is no command is a chat message, which the program stores and
\* passes on without looking into it: HELLO stands for all of them.
Sends(user_id, text) ==
    (InStore(user_id) /\ heap[user_sessions[user_id]].authenticated)
        => (StartsWith(text, SLASH) \/ text = HELLO)

\* One step of the program with handlers in the slots P and users U sending
\* the texts T.
Step(P, U, T) ==
    \/ \E p \in P, user_id \in U, text \in T :
          Sends(user_id, text) /\ Receive(p, user_id, text)
    \/ \E p \in P : AuthResume(p) \/ FinalResume(p) \/ ChatResume(p, ReplyLens)
    \/ periodic_cleanup
    \/ Tick

(***************************************************************************)
(* Spec: one user, whose updates are handled one after another.            *)
(***************************************************************************)
Next == Step({1}, {1}, Texts)

Spec == Init /\ [][Next]_vars

(***************************************************************************)
(* The bounded history.                                                    *)
(***************************************************************************)
\* The last n elements of seq, or all of seq when it has fewer.
LastN(seq, n) ==
    IF Len(seq) <= n THEN seq ELSE [k \in 1..n |-> seq[Len(seq) - n + k]]

\* C1: whatever add_message calls a session has taken, its history is no
\* longer than the configured maximum N and is the last min(N, k) of the k
\* turns appended since it was last cleared, in their order.
C1_HistoryIsLastN ==
    \A o \in ObjIds :
        /\ Len(heap[o].conversation_history) <= MAX_CONVERSATION_LENGTH
        /\ heap[o].conversation_history =
               LastN(appended[o], MAX_CONVERSATION_LENGTH)

\* A session that has taken more turns than its history holds.
C1_Witness ==
    \E o \in ObjIds :
        /\ Len(appended[o]) > MAX_CONVERSATION_LENGTH + 1
        /\ MAX_CONVERSATION_LENGTH > 1
        /\ Len(heap[o].conversation_history) = MAX_CONVERSATION_LENGTH

(***************************************************************************)
(* SpecReply: one user authenticates with the master password and sends    *)
(* one chat message; the language model's reply has any length up to       *)
(* MaxReplyLen.                                                            *)
(***************************************************************************)
InitReply ==
    /\ Init
    /\ MASTER_PASSWORD = PASSWORD
    /\ DEFAULT_CLAUDE_API_KEY = DEFAULT_KEY
    /\ MAX_CONVERSATION_LENGTH = MaxHistory

NextReply ==
    \/ \E text \in {PASSWORD, HELLO} :
          /\ nextEv <= ReplyEvents
          /\ Sends(1, text)
          /\ message_handler(1, 1, text)
    \/ FinalResume(1)
    \/ ChatResume(1, 0..MaxReplyLen)

SpecReply == InitReply /\ [][NextReply]_vars

(***************************************************************************)
(* SpecSweep: two users, handled one event at a time, with the clock       *)
(* advancing by 1 or 23 hours between events and sweeps, so that sessions  *)
(* are idle for 23, 24 and 25 hours when the sweep runs.                   *)
(***************************************************************************)
SleepHours == {1, SESSION_TIMEOUT_HOURS - 1}

InitSweep ==
    /\ Init
    /\ MASTER_PASSWORD = PASSWORD
    /\ DEFAULT_CLAUDE_API_KEY = DEFAULT_KEY
    /\ MAX_CONVERSATION_LENGTH = MaxHistory

NextSweep ==
    \/ \E user_id \in Users, text \in {CMD_START, CMD_RESET, PASSWORD, HELLO} :
          /\ nextEv <= SweepEvents
          /\ Sends(user_id, text)
          /\ \/ start_handler(1, user_id, text)
             \/ reset_handler(1, user_id, text)
             \/ message_handler(1, user_id, text)
    \/ FinalResume(1)
    \/ ChatResume(1, ReplyLens)
    \/ periodic_cleanup
    \/ \E hours \in SleepHours : Advance(hours)

SpecSweep == InitSweep /\ [][NextSweep]_vars

(***************************************************************************)
(* SpecConc: one user whose updates are handled concurrently: the event    *)
(* loop starts the handler of the next update while handlers of earlier    *)
(* ones are suspended in an await.                                         *)
(***************************************************************************)
InitConc ==
    /\ Init
    /\ MASTER_PASSWORD = PASSWORD
    /\ DEFAULT_CLAUDE_API_KEY = DEFAULT_KEY
    /\ MAX_CONVERSATION_LENGTH = MaxHistory

NextConc ==
    \/ \E p \in Procs,
          text \in {CMD_START, CMD_RESET, USER_KEY, PASSWORD, HELLO} :
          /\ nextEv <= ConcEvents
          /\ Sends(1, text)
          /\ \/ start_handler(p, 1, text)
             \/ reset_handler(p, 1, text)
             \/ message_handler(p, 1, text)
    \/ \E p \in Procs : AuthResume(p) \/ FinalResume(p) \/ ChatResume(p, ReplyLens)
    \/ periodic_cleanup
    \/ Tick

SpecConc == InitConc /\ [][NextConc]_vars

(***************************************************************************)
(* SpecUsers: two users whose updates are handled concurrently.            *)
(***************************************************************************)
NextUsers ==
    \/ \E p \in Procs, user_id \in Users,
          text \in {CMD_RESET, USER_KEY, PASSWORD, HELLO} :
          /\ nextEv <= UsersEvents
          /\ Sends(user_id, text)
          /\ \/ reset_handler(p, user_id, text)
             \/ message_handler(p, user_id, text)
    \/ \E p \in Procs : AuthResume(p) \/ FinalResume(p) \/ ChatResume(p, ReplyLens)

SpecUsers == InitConc /\ [][NextUsers]_vars

(***************************************************************************)
(* SpecScenario: with the master password 'secret123' and a default        *)
(* credential configured, one user sends '/start', 'wrong' and             *)
(* 'secret123', in this order; handlers overlap, the clock advances and    *)
(* the sweep runs as they may.                                             *)
(***************************************************************************)
Scenario == <<CMD_START, WRONG, PASSWORD>>

InitScenario ==
    /\ Init
    /\ MASTER_PASSWORD = PASSWORD
    /\ DEFAULT_CLAUDE_API_KEY = DEFAULT_KEY

NextScenario ==
    \/ \E p \in Procs :
          /\ nextEv <= Len(Scenario)
          /\ \/ start_handler(p, 1, Scenario[nextEv])
             \/ message_handler(p, 1, Scenario[nextEv])
    \/ \E p \in Procs : FinalResume(p)
    \/ periodic_cleanup
    \/ Tick

SpecScenario == InitScenario /\ [][NextScenario]_vars

(***************************************************************************)
(* Authentication state.                                                   *)
(***************************************************************************)
\* C2: in every state a session's credential is set exactly when the
\* session is authenticated, whatever the master password and the default
\* credential are configured to be.
C2_CredentialIffAuthenticated ==
    \A o \in ObjIds :
        /\ heap[o].authenticated <=> heap[o].api_key # None
        /\ heap[o].authenticated <=> heap[o].claude_client # None

\* Handler p has just started, on a text the pattern of a command matches.
Enters(p) == task[p].pc = "idle" /\ task'[p].pc # "idle"

\* The sessions the map holds keep what a step left alone.
StoredSessionsUnchanged ==
    /\ user_sessions' = user_sessions
    /\ \A u \in Users :
          InStore(u) => heap'[user_sessions[u]] = heap[user_sessions[u]]

\* C3: an authenticated session stays authenticated for as long as it
\* exists, whatever is handled next, and a session becomes authenticated
\* only in a step of the authentication branch of message_handler (the
\* password accepted, or the probe call returned).
C3_Step(o) ==
    /\ (heap[o].authenticated /\ heap'[o] # Unallocated)
          => heap'[o].authenticated
    /\ (~heap[o].authenticated /\ heap'[o].authenticated)
          => \E p \in Procs :
                /\ task'[p].session = o
                /\ \/ Enters(p) /\ task'[p].pc = "pw_ok_respond"
                   \/ task[p].pc = "probe" /\ task'[p].pc = "auth_ok_respond"

C3_AuthenticationIsOneWay == [][\A o \in ObjIds : C3_Step(o)]_vars

\* An authenticated session whose chat call has failed, after the clock has
\* advanced.
C3_Witness ==
    \E p \in Procs :
        /\ task[p].pc = "exc_respond"
        /\ task[p].reply = NoReply
        /\ heap[task[p].session].authenticated
        /\ ticks = MaxTicks

\* C4: /start, and /reset on an authenticated session, leave the history
\* empty and the authenticated flag, the credential and the client as they
\* were; /start goes on to send the welcome message whether or not the
\* session is authenticated.
C4_Step(p) ==
    LET o == task'[p].session
        u == task'[p].user_id
    IN  /\ (Enters(p) /\ task'[p].pc \in {"start_respond", "reset_respond"})
              => /\ heap'[o].conversation_history = << >>
                 /\ heap'[o].authenticated = heap[o].authenticated
                 /\ heap'[o].api_key = heap[o].api_key
                 /\ heap'[o].claude_client = heap[o].claude_client
        /\ (Enters(p) /\ task'[p].text = CMD_START)
              => /\ task'[p].pc = "start_respond"
                 /\ FinalBody(task'[p].pc) = "welcome"
                 /\ user_sessions'[u] = o
        /\ (Enters(p) /\ task'[p].text = CMD_RESET
                /\ InStore(u) /\ heap[user_sessions[u]].authenticated)
              => /\ task'[p].pc = "reset_respond"
                 /\ o = user_sessions[u]

C4_StartAndResetKeepAuthentication == [][\A p \in Procs : C4_Step(p)]_vars

\* /start handled for an authenticated session that holds a credential.
C4_Witness ==
    \E p \in Procs :
        /\ task[p].pc = "start_respond"
        /\ heap[task[p].session].authenticated
        /\ heap[task[p].session].api_key # None
        /\ heap[task[p].session].conversation_history = << >>

\* C5: /reset for an identity whose session exists and is unauthenticated
\* changes nothing of the session, and the one message the handler sends is
\* the authentication-required notice.
C5_Step(p) ==
    LET u == task'[p].user_id
    IN  /\ (Enters(p) /\ task'[p].text = CMD_RESET
                /\ InStore(u) /\ ~heap[user_sessions[u]].authenticated)
              => /\ task'[p].pc = "reset_denied_respond"
                 /\ task'[p].session = user_sessions[u]
                 /\ task'[p].out = << >>
                 /\ FinalBody(task'[p].pc) = "auth_required"
                 /\ StoredSessionsUnchanged
        /\ (task[p].pc = "reset_denied_respond" /\ task'[p] # task[p])
              => /\ task'[p] = IdleTask
                 /\ StoredSessionsUnchanged

C5_ResetUnauthenticatedIsRefused == [][\A p \in Procs : C5_Step(p)]_vars

\* /reset refused for a session that was created before the clock advanced.
C5_Witness ==
    \E p \in Procs :
        /\ task[p].pc = "reset_denied_respond"
        /\ user_sessions[task[p].user_id] = task[p].session
        /\ heap[task[p].session].last_activity < now

\* C6: a text with the credential prefix, sent to an unauthenticated
\* session, is only probed: it is not compared with the master password
\* (even when it equals it), the probe is made once, and when the probe
\* fails the session is left unauthenticated and without credential, as it
\* was.
C6_Step(p) ==
    LET o == task'[p].session
    IN  /\ (Enters(p) /\ StartsWith(task'[p].text, KEY_PREFIX)
                /\ ~heap[o].authenticated)
              => /\ task'[p].pc = "probe"
                 /\ task'[p].probes = 1
                 /\ ~task'[p].compared
                 /\ ~heap'[o].authenticated
                 /\ heap'[o].api_key = heap[o].api_key
                 /\ heap'[o].claude_client = heap[o].claude_client
        /\ (task[p].pc = "probe" /\ task'[p].pc = "invalid_key_respond")
              => /\ heap' = heap
                 /\ user_sessions' = user_sessions
                 /\ task'[p].probes = 1
                 /\ ~task'[p].compared
                 /\ ~heap'[o].authenticated
                 /\ heap'[o].api_key = None
                 /\ heap'[o].claude_client = None
        /\ (task[p].pc = "probe" /\ task'[p] # task[p])
              => task'[p].pc \in {"invalid_key_respond", "auth_ok_respond"}
        /\ (task[p].pc = "invalid_key_respond" /\ task'[p] # task[p])
              => /\ task'[p] = IdleTask
                 /\ StoredSessionsUnchanged

C6_FailedProbeNeverAuthenticates == [][\A p \in Procs : C6_Step(p)]_vars

\* The probe of a text that equals the master password has failed.
C6_Witness ==
    \E p \in Procs :
        /\ task[p].pc = "invalid_key_respond"
        /\ task[p].text = MASTER_PASSWORD
        /\ ~heap[task[p].session].authenticated
        /\ user_sessions[task[p].user_id] = task[p].session

\* C7: a text without the credential prefix, sent to an unauthenticated
\* session, authenticates it exactly when a master password is configured,
\* non-empty, and the text equals it character for character; the session
\* then holds the default credential.  Otherwise the session is as it was
\* (as constructed, if the message created it) and the handler goes on to
\* send the invalid-password-or-credential rejection.
C7_Step(p) ==
    LET o == task'[p].session
        u == task'[p].user_id
        text == task'[p].text
        accepted == /\ MASTER_PASSWORD # None
                    /\ MASTER_PASSWORD # EMPTY
                    /\ text = MASTER_PASSWORD
    IN  /\ (Enters(p) /\ ~StartsWith(text, SLASH)
                /\ ~StartsWith(text, KEY_PREFIX) /\ ~heap[o].authenticated)
              => /\ heap'[o].authenticated <=> accepted
                 /\ accepted
                       => /\ heap'[o].api_key = DEFAULT_CLAUDE_API_KEY
                          /\ task'[p].pc = "pw_ok_respond"
                          /\ FinalBody(task'[p].pc) = "auth_ok"
                 /\ ~accepted
                       => /\ heap'[o] = IF InStore(u) THEN heap[o]
                                        ELSE UserSession(u)
                          /\ task'[p].pc = "invalid_respond"
                          /\ FinalBody(task'[p].pc) = "invalid"
        /\ (task[p].pc \in {"pw_ok_respond", "invalid_respond"}
                /\ task'[p] # task[p])
              => /\ task'[p] = IdleTask
                 /\ StoredSessionsUnchanged

C7_PasswordAuthenticatesIffExact == [][\A p \in Procs : C7_Step(p)]_vars

\* The master password has been accepted and the session bound to the
\* default credential.
C7_Witness ==
    \E p \in Procs :
        /\ task[p].pc = "pw_ok_respond"
        /\ task[p].text = PASSWORD
        /\ heap[task[p].session].authenticated
        /\ heap[task[p].session].api_key = DEFAULT_KEY

(***************************************************************************)
(* The chat request.                                                       *)
(***************************************************************************)
\* The turns of the history h that belong to the inbound event ev.
TurnsOf(h, ev) == {k \in 1..Len(h) : h[k].ev = ev}

\* Handler p is in the except clause because messages.create raised.
CreateFailed(t) ==
    t.pc \in {"exc_delete", "exc_respond"} /\ t.reply = NoReply

\* C8: a chat request whose language-model call failed appends no assistant
\* turn: of that request the history holds at most its one user turn, and
\* nothing is appended from the failure to the handler's end.
C8_Step(p) ==
    LET o == task'[p].session
        h == heap'[o].conversation_history
    IN  /\ CreateFailed(task'[p])
              => /\ \A k \in TurnsOf(h, task'[p].ev) : h[k].role = "user"
                 /\ Cardinality(TurnsOf(h, task'[p].ev)) <= 1
                 /\ h = LastN(Append(task'[p].before,
                                     Turn("user", task'[p].text, task'[p].ev)),
                              MAX_CONVERSATION_LENGTH)
                 /\ task'[p].creates = 1
        /\ (task[p].pc = "create" /\ task'[p].pc = "exc_delete")
              => /\ heap' = heap
                 /\ appended' = appended
        /\ (CreateFailed(task[p]) /\ task'[p] # task[p])
              => /\ task'[p] = IdleTask \/ CreateFailed(task'[p])
                 /\ StoredSessionsUnchanged

C8_FailedChatAppendsNoAssistantTurn == [][\A p \in Procs : C8_Step(p)]_vars

\* messages.create has raised; the history ends with the request's user
\* turn, after an earlier exchange.
C8_Witness ==
    \E p \in Procs :
        LET h == heap[task[p].session].conversation_history
        IN  /\ CreateFailed(task[p])
            /\ Len(h) > 1
            /\ h[Len(h)].role = "user"
            /\ h[Len(h)].ev = task[p].ev
            /\ h[Len(h) - 1].role = "assistant"

\* C9: when messages.create fails, the history after the request is the
\* history the request found.
C9_FailedChatLeavesHistory ==
    \A p \in Procs :
        CreateFailed(task[p])
            => heap[task[p].session].conversation_history = task[p].before

(***************************************************************************)
(* Sending the reply.                                                      *)
(***************************************************************************)
\* The pieces of the reply handler t has sent so far.
ChunksSent(t) == SelectSeq(t.out, LAMBDA m : m.op = "send" /\ m.body = "reply")

\* A range [lo, hi) is a non-empty piece of at most MESSAGE_LIMIT
\* characters that starts at from, and the transport's own truncation to
\* MESSAGE_LIMIT characters leaves it whole.
IsPiece(lo, hi, from) ==
    /\ lo = from
    /\ lo < hi
    /\ hi - lo <= MESSAGE_LIMIT
    /\ send_message(lo, hi) = <<lo, hi>>

\* What handler t has sent of its reply, and the piece it is sending.
C10_Sending(t) ==
    LET sent == ChunksSent(t)
        n == Len(sent)
        c == Chunk(t.i, t.reply)
    IN  /\ t.pc = "reply_respond"
              => /\ t.reply <= MESSAGE_LIMIT
                 /\ n = 0
                 /\ send_message(0, t.reply) = <<0, t.reply>>
        /\ t.pc = "chunk_respond"
              => /\ t.reply > MESSAGE_LIMIT
                 /\ \A k \in 1..n :
                       IsPiece(sent[k].lo, sent[k].hi,
                               IF k = 1 THEN 0 ELSE sent[k - 1].hi)
                 /\ IsPiece(c[1], c[2], IF n = 0 THEN 0 ELSE sent[n].hi)
                 /\ c[2] <= t.reply

\* C10: a reply of length L <= 4096 is sent as one message; a longer one as
\* consecutive messages, each a non-empty range of at most 4096 characters
\* that starts where the one before ended, the first at 0, and the handler
\* is done with sending exactly when a range that ends at L has been sent.
C10_Step(p) ==
    /\ C10_Sending(task'[p])
    /\ (task[p].pc = "typing_delete"
            /\ task'[p].pc \notin {"typing_delete", "exc_delete"})
          => task'[p].pc = IF task[p].reply <= MESSAGE_LIMIT
                           THEN "reply_respond"
                           ELSE "chunk_respond"
    /\ (task[p].pc = "reply_respond" /\ task'[p] # task[p])
          => task'[p] = IdleTask \/ task'[p].pc = "exc_delete"
    /\ (task[p].pc = "chunk_respond" /\ task'[p] # task[p])
          => LET c == Chunk(task[p].i, task[p].reply)
             IN  \/ task'[p].pc = "exc_delete" /\ task'[p].out = task[p].out
                 \/ task'[p] = IdleTask /\ c[2] = task[p].reply
                 \/ /\ task'[p].pc = "chunk_respond"
                    /\ c[2] < task[p].reply
                    /\ task'[p].out = Append(task[p].out, SentChunk(c[1], c[2]))

C10_ReplyIsSentWhole == [][\A p \in Procs : C10_Step(p)]_vars

\* Two full pieces of a reply have been sent and a shorter last one is being
\* sent.
C10_Witness ==
    \E p \in Procs :
        /\ task[p].pc = "chunk_respond"
        /\ Len(ChunksSent(task[p])) = 2
        /\ task[p].reply > 2 * MESSAGE_LIMIT
        /\ Chunk(task[p].i, task[p].reply)[2] = task[p].reply

\* The ranges handler t has sent of its reply, followed by the one it is
\* sending.
Pieces(t) ==
    LET sent == ChunksSent(t)
        c == Chunk(t.i, t.reply)
    IN  [k \in 1..Len(sent) |-> <<sent[k].lo, sent[k].hi>>] \o <<c>>

IsPrefix(s, t) == Len(s) <= Len(t) /\ \A k \in 1..Len(s) : s[k] = t[k]

\* Handler t is sending, piece by piece, a reply of 9000 characters.
Sending9000(t) == t.pc = "chunk_respond" /\ t.reply = 9000

\* C11, as stated: a reply of 9000 characters goes out in exactly two
\* pieces, of 4096 and 4904 characters, in this order.
C11_TwoChunks ==
    \A p \in Procs :
        Sending9000(task[p])
            => IsPrefix(Pieces(task[p]), << <<0, 4096>>, <<4096, 9000>> >>)

\* C11, amended: a reply of 9000 characters goes out in exactly three
\* pieces, of 4096, 4096 and 808 characters, in this order; the handler is
\* done with sending when the third has been sent.
C11_Step(p) ==
    /\ Sending9000(task'[p])
          => IsPrefix(Pieces(task'[p]),
                      << <<0, 4096>>, <<4096, 8192>>, <<8192, 9000>> >>)
    /\ (Sending9000(task[p]) /\ task'[p] = IdleTask)
          => Len(Pieces(task[p])) = 3

C11_ThreeChunks == [][\A p \in Procs : C11_Step(p)]_vars

\* The third piece of a reply of 9000 characters is being sent.
C11_Witness ==
    \E p \in Procs :
        /\ Sending9000(task[p])
        /\ Pieces(task[p]) = << <<0, 4096>>, <<4096, 8192>>, <<8192, 9000>> >>

(***************************************************************************)
(* The scenario '/start', 'wrong', 'secret123'.                            *)
(***************************************************************************)
\* The session (a live object) is authenticated, holds the default
\* credential and has an empty history.
AuthenticatedByDefault(o) ==
    /\ heap[o].authenticated
    /\ heap[o].api_key = DEFAULT_KEY
    /\ heap[o].claude_client = AsyncAnthropic(DEFAULT_KEY)
    /\ heap[o].conversation_history = << >>

\* C12: once '/start' and 'wrong' have been received the user's session is
\* unauthenticated; once 'secret123' has been received too, it is
\* authenticated, bound to the default credential, and its history is
\* empty (for as long as the sweep has not evicted it).
C12_StartWrongPassword ==
    /\ (nextEv \in {2, 3} /\ InStore(1))
          => ~heap[user_sessions[1]].authenticated
    /\ (nextEv = 4 /\ InStore(1)) => AuthenticatedByDefault(user_sessions[1])
    /\ \A p \in Procs :
          /\ task[p].ev = 1 => task[p].pc = "start_respond"
          /\ task[p].ev = 2
                => /\ task[p].pc = "invalid_respond"
                   /\ ~heap[task[p].session].authenticated \/ nextEv = 4
          /\ task[p].ev = 3
                => /\ task[p].pc = "pw_ok_respond"
                   /\ AuthenticatedByDefault(task[p].session)

\* All three events have been handled and the session is in the map.
C12_Witness ==
    /\ nextEv = 4
    /\ \A p \in Procs : task[p].pc = "idle"
    /\ InStore(1)
    /\ AuthenticatedByDefault(user_sessions[1])

(***************************************************************************)
(* The sweep.                                                              *)
(***************************************************************************)
\* The hours the stored session of user u has been idle.
Idle(u) == now - heap[user_sessions[u]].last_activity

\* A step that ran clean_old_sessions and removed something.
Swept ==
    /\ user_sessions' # user_sessions
    /\ task' = task
    /\ nextEv' = nextEv
    /\ now' = now

\* C13: only the sweep removes sessions from the map, and only those idle
\* for strictly more than SESSION_TIMEOUT_HOURS; a sweep removes every such
\* session and leaves the others in the map, unchanged.  With the timeout
\* of 24 hours a session idle for 25 hours goes, one idle for 23 or for
\* exactly 24 hours stays.
C13_Step ==
    \A u \in Users :
        InStore(u) =>
            /\ user_sessions'[u] # user_sessions[u]
                  => /\ Swept
                     /\ user_sessions'[u] = NoObj
                     /\ Idle(u) > SESSION_TIMEOUT_HOURS
            /\ (Swept /\ Idle(u) > SESSION_TIMEOUT_HOURS)
                  => user_sessions'[u] = NoObj
            /\ (Swept /\ Idle(u) <= SESSION_TIMEOUT_HOURS)
                  => /\ user_sessions'[u] = user_sessions[u]
                     /\ heap'[user_sessions[u]] = heap[user_sessions[u]]
            /\ Idle(u) = 25 => clean_old_sessions[u] = NoObj
            /\ Idle(u) \in {23, 24}
                  => clean_old_sessions[u] = user_sessions[u]

C13_SweepRemovesExactlyExpired == [][C13_Step]_vars

\* User 1's session, constructed while another session existed, has been
\* idle for exactly the timeout and is in the map; the other session is
\* gone.
C13_Witness ==
    /\ InStore(1)
    /\ user_sessions[1] = 2
    /\ Idle(1) = SESSION_TIMEOUT_HOURS
    /\ ~InStore(2)
    /\ heap[1] = Unallocated

\* C14: every turn appended, and every reset of the conversation (/start,
\* or /reset on an authenticated session), leaves the session's
\* last_activity at the current time.
C14_Step(p) ==
    LET o == task'[p].session
    IN  /\ (task[p].pc \in {"typing_respond", "create"}
                /\ Len(appended'[o]) > Len(appended[o]))
              => heap'[o].last_activity = now
        /\ (Enters(p) /\ task'[p].pc \in {"start_respond", "reset_respond"})
              => heap'[o].last_activity = now

C14_ResetTouchesLastActivity == [][\A p \in Procs : C14_Step(p)]_vars

(***************************************************************************)
(* First contact.                                                          *)
(***************************************************************************)
\* The session handler p works on is the one the map holds for its user,
\* the one it held before if it held one.
KeepsOrCreates(p) ==
    LET u == task'[p].user_id
        o == task'[p].session
    IN  /\ o # NoObj
        /\ user_sessions'[u] = o
        /\ \A v \in Users \ {u} : user_sessions'[v] = user_sessions[v]
        /\ InStore(u)
              => /\ o = user_sessions[u]
                 /\ heap'[o].user_id = heap[o].user_id
        /\ ~InStore(u) => heap[o] = Unallocated /\ heap'[o].user_id = u

\* C15, as stated: when a handler has started on /start, /reset, /help or
\* a text that is no command, the map holds a session for the user: the
\* one it held, or else a fresh one (unauthenticated, no credential, empty
\* history).
C15_Original(p) ==
    LET u == task'[p].user_id
        o == task'[p].session
    IN  Enters(p)
           => /\ KeepsOrCreates(p)
              /\ ~InStore(u) => heap'[o] = UserSession(u)

C15_FirstContactCreatesFresh == [][\A p \in Procs : C15_Original(p)]_vars

\* C15, amended: when a handler has started on /start, /reset or a text
\* that is no command, the map holds a session for the user: the one it
\* held, or else one constructed for this event, with an empty history,
\* and unauthenticated and without credential unless the event is the
\* accepted master password.  /help creates no session and changes none.
C15_Step(p) ==
    LET u == task'[p].user_id
        o == task'[p].session
    IN  /\ (Enters(p) /\ task'[p].pc # "help_respond")
              => /\ KeepsOrCreates(p)
                 /\ ~InStore(u)
                       => /\ heap'[o].conversation_history = << >>
                          /\ heap'[o].last_activity = now
                          /\ heap'[o].authenticated
                                => task'[p].pc = "pw_ok_respond"
                          /\ ~heap'[o].authenticated
                                => heap'[o] = UserSession(u)
        /\ (Enters(p) /\ task'[p].pc = "help_respond")
              => /\ o = NoObj
                 /\ user_sessions' = user_sessions
                 /\ heap' = heap

C15_FirstContactCreates == [][\A p \in Procs : C15_Step(p)]_vars

\* The first event of a user is /reset: a session has been constructed for
\* it.
C15_Witness ==
    \E p \in Procs :
        /\ task[p].pc = "reset_denied_respond"
        /\ task[p].ev = 1
        /\ user_sessions[task[p].user_id] = task[p].session
        /\ heap[task[p].session] = UserSession(task[p].user_id)

(***************************************************************************)
(* Command classification.                                                 *)
(***************************************************************************)
\* C16: the /start, /reset and /help handlers run only for a text that is
\* exactly '/start', '/reset' or '/help'.
C16_Step(p) ==
    Enters(p) =>
        /\ task'[p].pc = "start_respond" => task'[p].text = CMD_START
        /\ task'[p].pc \in {"reset_respond", "reset_denied_respond"}
              => task'[p].text = CMD_RESET
        /\ task'[p].pc = "help_respond" => task'[p].text = CMD_HELP

C16_CommandsMatchExactly == [][\A p \in Procs : C16_Step(p)]_vars

(***************************************************************************)
(* Concurrent handlers.                                                    *)
(***************************************************************************)
\* Handler t has read its session and has a mutation of it still to make:
\* it is suspended in the probe call (bot.py:176, before the assignments of
\* authenticate_with_api_key), in sending the indicator (bot.py:200, before
\* the user turn is appended) or in the chat call (bot.py:209, before the
\* assistant turn is appended).
InSession(t) == t.pc \in {"probe", "typing_respond", "create"}

\* C17: no two handlers for one user are at the same time between their
\* first read of the session and their last mutation of it.
C17_HandlersExcludeEachOther ==
    \A p, q \in Procs :
        (p # q /\ InSession(task[p]) /\ InSession(task[q]))
            => task[p].user_id # task[q].user_id

(***************************************************************************)
(* Failures of the gateway and malformed events.                           *)
(***************************************************************************)
\* C18: whether sending the indicator returns or raises, the user turn is
\* appended and the language-model call made; whether deleting it returns
\* or raises, the reply, or after a failed call the error message, is sent
\* next.
C18_Step(p) ==
    /\ (task[p].pc = "typing_respond" /\ task'[p] # task[p])
          => /\ task'[p].pc = "create"
             /\ task'[p].creates = 1
             /\ Len(appended'[task[p].session])
                   = Len(appended[task[p].session]) + 1
    /\ (task[p].pc = "typing_delete" /\ task'[p] # task[p])
          => task'[p].pc \in {"chunk_respond", "reply_respond"}
    /\ (task[p].pc = "exc_delete" /\ task'[p] # task[p])
          => task'[p].pc = "exc_respond"

C18_IndicatorFailureIsNotFatal == [][\A p \in Procs : C18_Step(p)]_vars

\* C19: no handler runs on an event without text (message_text is '' then,
\* bot.py:170).
C19_NoHandlerWithoutText ==
    \A p \in Procs : task[p].pc # "idle" => task[p].text # EMPTY

\* C20: a text that is no command, for an authenticated session without
\* client, leads to the one respond of the reconfiguration prompt and the
\* handler's return: nothing else is sent, no turn is appended, no
\* language-model call made, and the session and the map stay as they are;
\* the handler's slot is free afterwards.
C20_Step(p) ==
    LET u == task'[p].user_id
    IN  /\ (Enters(p) /\ ~StartsWith(task'[p].text, SLASH) /\ InStore(u)
                /\ heap[user_sessions[u]].authenticated
                /\ heap[user_sessions[u]].claude_client = None)
              => /\ task'[p].pc = "no_client_respond"
                 /\ FinalBody(task'[p].pc) = "no_client"
                 /\ task'[p].session = user_sessions[u]
                 /\ task'[p].out = << >>
                 /\ task'[p].creates = 0
                 /\ heap' = heap
                 /\ user_sessions' = user_sessions
                 /\ appended' = appended
        /\ task'[p].pc = "no_client_respond" => Enters(p) \/ task'[p] = task[p]
        /\ (task[p].pc = "no_client_respond" /\ task'[p] # task[p])
              => /\ task'[p] = IdleTask
                 /\ StoredSessionsUnchanged
                 /\ appended' = appended \/ ~InStore(task[p].user_id)

C20_NoClientIsRefused == [][\A p \in Procs : C20_Step(p)]_vars

\* A chat message has reached an authenticated session without client.
C20_Witness ==
    \E p \in Procs :
        /\ task[p].pc = "no_client_respond"
        /\ task[p].text = HELLO
        /\ heap[task[p].session].authenticated
        /\ heap[task[p].session].claude_client = None
        /\ user_sessions[task[p].user_id] = task[p].session

\* C21: once a session is authenticated, no step changes the credential or
\* the client it is bound to, for as long as the object exists.
C21_Step(o) ==
    (heap[o].authenticated /\ heap'[o] # Unallocated)
        => /\ heap'[o].api_key = heap[o].api_key
           /\ heap'[o].claude_client = heap[o].claude_client

C21_CredentialBoundOnce == [][\A o \in ObjIds : C21_Step(o)]_vars

(***************************************************************************)
(* The sweep and handlers in flight.                                       *)
(***************************************************************************)
\* C22: a handler changes a session object only while the object is the
\* map's entry for its user, and when the probe call has returned and the
\* authentication confirmation is sent, the map holds an authenticated
\* session for the user.
C22_Step ==
    /\ \A o \in ObjIds :
          (heap'[o] # heap[o] /\ heap'[o] # Unallocated)
              => \E u \in Users : user_sessions'[u] = o
    /\ \A p \in Procs :
          (task[p].pc = "probe" /\ task'[p].pc = "auth_ok_respond")
              => /\ user_sessions'[task[p].user_id] # NoObj
                 /\ heap'[user_sessions'[task[p].user_id]].authenticated

C22_SweepSafeForHandlersInFlight == [][C22_Step]_vars

\* C23: while the invalid-credential message is being sent the handler's
\* session is unauthenticated, and while the confirmation is being sent it
\* is authenticated.
C23_ReplyAgreesWithFlag ==
    \A p \in Procs :
        /\ task[p].pc = "invalid_key_respond"
              => ~heap[task[p].session].authenticated
        /\ task[p].pc = "auth_ok_respond"
              => heap[task[p].session].authenticated

(***************************************************************************)
(* The course of a chat request.                                           *)
(***************************************************************************)
\* Handler t is past the return of messages.create, with a reply or with
\* an exception.
CallReturned(t) ==
    t.pc \in {"typing_delete", "chunk_respond", "reply_respond",
              "exc_delete", "exc_respond"}

\* The indicator's deletion is in the record of handler t.
IndicatorDeleted(t) == \E k \in 1..Len(t.out) : t.out[k] = Deleted

\* C24: a chat request whose language-model call has returned made the
\* call once; it sends a piece of the reply or the error message only
\* after the indicator's deletion and, for the reply, after the assistant
\* turn was appended; it sends the error message only if it has sent no
\* piece of the reply; and it ends only by sending the last piece of the
\* reply or the error message.
C24_Step(p) ==
    LET t == task'[p]
        h == heap'[t.session].conversation_history
    IN  /\ CallReturned(t) => t.creates = 1
        /\ t.pc \in {"chunk_respond", "reply_respond", "exc_respond"}
              => IndicatorDeleted(t)
        /\ t.pc \in {"chunk_respond", "reply_respond"}
              => \E k \in 1..Len(appended'[t.session]) :
                    /\ appended'[t.session][k].role = "assistant"
                    /\ appended'[t.session][k].ev = t.ev
        /\ t.pc = "exc_respond" => ChunksSent(t) = << >>
        /\ (CallReturned(task[p]) /\ t = IdleTask)
              => task[p].pc \in {"chunk_respond", "reply_respond",
                                 "exc_respond"}

C24_ChatRequestRunsItsCourse == [][\A p \in Procs : C24_Step(p)]_vars

(***************************************************************************)
(* Isolation of users.                                                     *)
(***************************************************************************)
\* The session the map holds for user u keeps its authenticated flag, its
\* credential, its client and its history.
SessionKept(u) ==
    /\ user_sessions'[u] = user_sessions[u]
    /\ InStore(u)
          => LET o == user_sessions[u]
             IN  /\ heap'[o].authenticated = heap[o].authenticated
                 /\ heap'[o].api_key = heap[o].api_key
                 /\ heap'[o].claude_client = heap[o].claude_client
                 /\ heap'[o].conversation_history
                       = heap[o].conversation_history

\* C25: a step of a handler for user A leaves the session of every other
\* user as it was, and the session a handler works on (whose client and
\* history the language-model call takes) is the one constructed for its
\* own user and is no other user's entry in the map.
C25_Step(p) ==
    LET A == IF Enters(p) THEN task'[p].user_id ELSE task[p].user_id
        t == task'[p]
    IN  /\ task'[p] # task[p]
              => \A B \in Users \ {A} : SessionKept(B)
        /\ (t.pc # "idle" /\ t.session # NoObj)
              => /\ heap'[t.session].user_id = t.user_id
                 /\ \A B \in Users \ {t.user_id} :
                       user_sessions'[B] # t.session

C25_UsersAreIsolated == [][\A p \in Procs : C25_Step(p)]_vars

\* User 1 is authenticated and has a history; a handler for user 2, whose
\* session is unauthenticated, is sending the rejection.
C25_Witness ==
    \E p \in Procs :
        /\ task[p].user_id = 2
        /\ task[p].pc = "invalid_respond"
        /\ InStore(1) /\ InStore(2)
        /\ heap[user_sessions[1]].authenticated
        /\ heap[user_sessions[1]].conversation_history # << >>
        /\ ~heap[user_sessions[2]].authenticated

(***************************************************************************)
(* What the language model is given.                                       *)
(***************************************************************************)
\* C26: the history passed to messages.create (the session's history while
\* the handler is suspended in the call) is not empty, has at most
\* MAX_CONVERSATION_LENGTH turns, ends with the user turn of the handler's
\* event and begins with a user turn.
C26_CallStartsWithUserTurn ==
    \A p \in Procs :
        task[p].pc = "create"
            => LET h == heap[task[p].session].conversation_history
               IN  /\ h # << >>
                   /\ Len(h) <= MAX_CONVERSATION_LENGTH
                   /\ h[Len(h)].role = "user"
                   /\ h[Len(h)].ev = task[p].ev
                   /\ h[1].role = "user"

\* C27: once /start or /reset has cleared a history (its handler is
\* sending its message), the history holds no turn of an event received
\* before the command.
C27_NoTurnOfEarlierRequestAfterReset ==
    \A q \in Procs :
        task[q].pc \in {"start_respond", "reset_respond"}
            => LET h == heap[task[q].session].conversation_history
               IN  \A k \in 1..Len(h) : h[k].ev > task[q].ev

=============================================================================
